---- MODULE Spec2Model ----
(***************************************************************************)
(* cyberbrain/value_stack.py: the simulated value stack of the tracer.     *)
(*                                                                         *)
(* A ValueStack owns a list of slots (each slot a Python list of labels)   *)
(* and the list extended_args.  emit_mutation(instr) dispatches on the     *)
(* opcode name to a handler that changes the stack and returns None or a   *)
(* Mutation(target, sources).                                              *)
(*                                                                         *)
(* Python values are modelled by tagged records (None, a list of labels,   *)
(* a str, the list of lists _pop(n) returns).  An opcode name is modelled  *)
(* by the sequence of its "_"-separated words, so that the prefix test     *)
(* and the handler lookup by constructed name are computed, not assumed.   *)
(***************************************************************************)
EXTENDS Naturals, Sequences, FiniteSets

VARIABLES
    stack,          \* self.stack: sequence of slots, bottom first; a slot is a sequence of labels
    extended_args,  \* self.extended_args
    instr,          \* the instruction of the last emit_mutation call
    returned,       \* what that call returned (None or a Mutation)
    raised,         \* the exception that call propagated, if any
    script,         \* name of the instruction sequence the caller is feeding ("" if none)
    pc,             \* how many instructions of that sequence have been processed
    stack0          \* the stack when the sequence was started

vars == <<stack, extended_args, instr, returned, raised, script, pc, stack0>>

---------------------------------------------------------------------------
(* Bounds of the model. *)

MaxSize == 5
MaxExt == 2

(* Operands the caller supplies. *)
Names == {"a", "b"}
Args == {0, 1, 2}

---------------------------------------------------------------------------
(* Python values *)

None == [type |-> "NoneType", list |-> <<>>, str |-> "", items |-> <<>>]
PyList(l) == [type |-> "list", list |-> l, str |-> "", items |-> <<>>]
PyStr(s) == [type |-> "str", list |-> <<>>, str |-> s, items |-> <<>>]
PyItems(ls) == [type |-> "list", list |-> <<>>, str |-> "", items |-> ls]

_placeholder == None

(* set(list) *)
set(l) == {l[k] : k \in 1..Len(l)}

(* sum(list of ints) *)
RECURSIVE sum(_)
sum(l) == IF l = <<>> THEN 0 ELSE l[1] + sum(Tail(l))

(* basis.Mutation(target, sources); NoReturn is the None a call returns. *)
Mutation(target, sources) == [isNone |-> FALSE, target |-> target, sources |-> sources]
NoReturn == [isNone |-> TRUE, target |-> "", sources |-> {}]

(* Exceptions: the type, and for an AttributeError the attribute not found. *)
NoExc == [type |-> "", attr |-> <<>>]
Exc(t) == [type |-> t, attr |-> <<>>]
AttributeError(name) == [type |-> "AttributeError", attr |-> name]

---------------------------------------------------------------------------
(* Instructions *)

Instr(opname, arg, name) == [opname |-> opname, arg |-> arg, argval |-> name, argrepr |-> name]

NoArgOps == {
    <<"POP", "TOP">>, <<"ROT", "TWO">>, <<"DUP", "TOP">>,
    <<"UNARY", "POSITIVE">>, <<"UNARY", "NEGATIVE">>, <<"UNARY", "NOT">>, <<"UNARY", "INVERT">>,
    <<"BINARY", "ADD">>, <<"BINARY", "TRUE", "DIVIDE">>,
    <<"RETURN", "VALUE">>, <<"STORE", "ATTR">>, <<"LOAD", "CONST">>, <<"LOAD", "ATTR">>,
    <<"LOAD", "METHOD">>, <<"CALL", "METHOD">>,
    <<"NOP">>, <<"BINARY">>, <<"STORE", "SUBSCR">> }

NameOps == { <<"LOAD", "NAME">>, <<"LOAD", "FAST">>, <<"STORE", "NAME">>, <<"STORE", "FAST">> }

ArgOps == {
    <<"UNPACK", "SEQUENCE">>, <<"UNPACK", "EX">>,
    <<"BUILD", "TUPLE">>, <<"BUILD", "LIST">>, <<"BUILD", "SET">>, <<"BUILD", "MAP">>,
    <<"BUILD", "CONST", "KEY", "MAP">>, <<"EXTENDED", "ARG">> }

Instructions ==
    {Instr(op, 0, "") : op \in NoArgOps}
        \cup {Instr(op, 0, n) : op \in NameOps, n \in Names}
        \cup {Instr(op, k, "") : op \in ArgOps, k \in Args}

NoInstr == Instr(<<>>, 0, "")

---------------------------------------------------------------------------
(* Stack primitives.  self is [stack, extended_args]. *)

tos(self) ==
    IF Len(self.stack) >= 1 THEN PyList(self.stack[Len(self.stack)]) ELSE None

tos1(self) ==
    IF Len(self.stack) >= 2 THEN PyList(self.stack[Len(self.stack) - 1]) ELSE None

(* A push without the placeholder case: the placeholder is wrapped like a   *)
(* single value and becomes a label of the slot.                           *)
push_without_placeholder(st, value) ==
    IF value.type # "list"
    THEN Append(st, <<IF value.type = "NoneType" THEN "None" ELSE value.str>>)
    ELSE Append(st, value.list)

_push(st, value) ==
    IF value = _placeholder THEN Append(st, <<>>)
    ELSE IF value.type # "list" THEN Append(st, <<value.str>>)
    ELSE Append(st, value.list)

(* Returns the stack left and the value returned.  With too few slots the   *)
(* pops done before the IndexError stay done and the value is None.         *)
_pop(st, n) ==
    IF n = 1
    THEN IF Len(st) >= 1
         THEN [stack |-> SubSeq(st, 1, Len(st) - 1), value |-> PyList(st[Len(st)])]
         ELSE [stack |-> st, value |-> None]
    ELSE IF Len(st) >= n
         THEN [stack |-> SubSeq(st, 1, Len(st) - n),
               value |-> PyItems([k \in 1..n |-> st[Len(st) + 1 - k]])]
         ELSE [stack |-> <<>>, value |-> None]

_replace_tos(st, new_value) == _push(_pop(st, 1).stack, new_value)

(* The loop of _pop_n_push_one: k pops to go, elements collected so far.    *)
(* extend(None) raises TypeError and leaves the stack as popped so far.     *)
RECURSIVE PopExtend(_, _, _)
PopExtend(st, k, elements) ==
    IF k = 0
    THEN [stack |-> _push(st, PyList(elements)), exc |-> NoExc]
    ELSE LET p == _pop(st, 1)
         IN  IF p.value.type = "NoneType"
             THEN [stack |-> p.stack, exc |-> Exc("TypeError")]
             ELSE PopExtend(p.stack, k - 1, elements \o p.value.list)

_pop_n_push_one(st, n) == PopExtend(st, n, <<>>)

(* The loop of _pop_one_push_n. *)
RECURSIVE PushTimes(_, _, _)
PushTimes(st, value, k) ==
    IF k = 0 THEN st ELSE PushTimes(_push(st, value), value, k - 1)

(* A spread that reads the top slot without popping it. *)
peek_one_push_n(st, n) ==
    PushTimes(st, _pop(st, 1).value, n)

_pop_one_push_n(st, n) ==
    LET p == _pop(st, 1) IN PushTimes(p.stack, p.value, n)

---------------------------------------------------------------------------
(* Handlers.  Each maps self and the instruction to the state left, the     *)
(* value returned and the exception propagated.                             *)

Done(st, ext, ret) == [stack |-> st, extended_args |-> ext, ret |-> ret, exc |-> NoExc]
Raise(st, ext, exc) == [stack |-> st, extended_args |-> ext, ret |-> NoReturn, exc |-> exc]

_POP_TOP_handler(self, i) ==
    Done(_pop(self.stack, 1).stack, self.extended_args, NoReturn)

(* A ROT_TWO that pushes the two slots back in their old order. *)
ROT_TWO_pushes_back(self, i) ==
    LET p == _pop(self.stack, 2)
    IN  IF p.value.type = "NoneType"
        THEN Raise(p.stack, self.extended_args, Exc("TypeError"))
        ELSE Done(_push(_push(p.stack, PyList(p.value.items[2])), PyList(p.value.items[1])),
                  self.extended_args, NoReturn)

_ROT_TWO_handler(self, i) ==
    LET p == _pop(self.stack, 2)
    IN  IF p.value.type = "NoneType"
        THEN Raise(p.stack, self.extended_args, Exc("TypeError"))
        ELSE Done(_push(_push(p.stack, PyList(p.value.items[1])), PyList(p.value.items[2])),
                  self.extended_args, NoReturn)

(* A DUP_TOP that pushes a slot without provenance. *)
DUP_TOP_pushes_placeholder(self, i) ==
    Done(_push(self.stack, _placeholder), self.extended_args, NoReturn)

_DUP_TOP_handler(self, i) ==
    Done(_push(self.stack, tos(self)), self.extended_args, NoReturn)

_UNARY_POSITIVE_handler(self, i) == Done(self.stack, self.extended_args, NoReturn)

_UNARY_NEGATIVE_handler(self, i) == Done(self.stack, self.extended_args, NoReturn)

_UNARY_NOT_handler(self, i) == Done(self.stack, self.extended_args, NoReturn)

_UNARY_INVERT_handler(self, i) == Done(self.stack, self.extended_args, NoReturn)

(* A binary handler that keeps only the labels of the right operand. *)
BINARY_keeps_tos_only(self, i) ==
    LET p == _pop(self.stack, 1)
        q == _pop(p.stack, 1)
    IN  IF p.value.type = "NoneType" \/ q.value.type = "NoneType"
        THEN Raise(q.stack, self.extended_args, Exc("TypeError"))
        ELSE Done(_push(q.stack, p.value), self.extended_args, NoReturn)

_BINARY_operation_handler(self, i) ==
    LET r == _pop_n_push_one(self.stack, 2)
    IN  [stack |-> r.stack, extended_args |-> self.extended_args, ret |-> NoReturn, exc |-> r.exc]

_RETURN_VALUE_handler(self, i) ==
    Done(_pop(self.stack, 1).stack, self.extended_args, NoReturn)

(* A STORE_NAME that leaves the stored value on the stack. *)
STORE_NAME_without_pop(self, i) ==
    IF tos(self).type = "NoneType"
    THEN Raise(self.stack, self.extended_args, Exc("TypeError"))
    ELSE Done(self.stack, self.extended_args, Mutation(i.argval, set(tos(self).list)))

_STORE_NAME_handler(self, i) ==
    IF tos(self).type = "NoneType"
    THEN Raise(self.stack, self.extended_args, Exc("TypeError"))
    ELSE Done(_pop(self.stack, 1).stack, self.extended_args,
              Mutation(i.argval, set(tos(self).list)))

_UNPACK_SEQUENCE_handler(self, i) ==
    Done(_pop_one_push_n(self.stack, i.arg), self.extended_args, NoReturn)

(* An UNPACK_EX that forgets the starred receiver itself. *)
UNPACK_EX_without_receiver(self, i) ==
    IF ~(Len(self.extended_args) <= 1)
    THEN Raise(self.stack, self.extended_args, Exc("AssertionError"))
    ELSE LET number_of_receivers == sum(self.extended_args) + i.arg
         IN  Done(_pop_one_push_n(self.stack, number_of_receivers), <<>>, NoReturn)

_UNPACK_EX_handler(self, i) ==
    IF ~(Len(self.extended_args) <= 1)
    THEN Raise(self.stack, self.extended_args, Exc("AssertionError"))
    ELSE LET number_of_receivers == sum(self.extended_args) + 1 + i.arg
         IN  Done(_pop_one_push_n(self.stack, number_of_receivers), <<>>, NoReturn)

(* A STORE_ATTR that takes its sources from the owner's own slot. *)
STORE_ATTR_sources_from_tos(self, i) ==
    IF tos(self).type = "NoneType"
    THEN Raise(self.stack, self.extended_args, Exc("TypeError"))
    ELSE IF ~(Len(tos(self).list) = 1)
    THEN Raise(self.stack, self.extended_args, Exc("AssertionError"))
    ELSE Done(self.stack, self.extended_args,
              Mutation(tos(self).list[1], set(tos(self).list)))

(* A STORE_ATTR that pops the owner after reading it. *)
STORE_ATTR_pops_owner(self, i) ==
    IF tos(self).type = "NoneType"
    THEN Raise(self.stack, self.extended_args, Exc("TypeError"))
    ELSE IF ~(Len(tos(self).list) = 1)
    THEN Raise(self.stack, self.extended_args, Exc("AssertionError"))
    ELSE IF tos1(self).type = "NoneType"
    THEN Raise(self.stack, self.extended_args, Exc("TypeError"))
    ELSE Done(_pop(self.stack, 1).stack, self.extended_args,
              Mutation(tos(self).list[1], set(tos1(self).list)))

_STORE_ATTR_handler(self, i) ==
    IF tos(self).type = "NoneType"
    THEN Raise(self.stack, self.extended_args, Exc("TypeError"))
    ELSE IF ~(Len(tos(self).list) = 1)
    THEN Raise(self.stack, self.extended_args, Exc("AssertionError"))
    ELSE IF tos1(self).type = "NoneType"
    THEN Raise(self.stack, self.extended_args, Exc("TypeError"))
    ELSE Done(self.stack, self.extended_args,
              Mutation(tos(self).list[1], set(tos1(self).list)))

(* A LOAD_CONST that pushes the constant's representation as a label. *)
LOAD_CONST_pushes_argrepr(self, i) ==
    Done(_push(self.stack, PyStr(i.argrepr)), self.extended_args, NoReturn)

_LOAD_CONST_handler(self, i) ==
    Done(_push(self.stack, _placeholder), self.extended_args, NoReturn)

(* A LOAD_NAME that pushes a slot without provenance. *)
LOAD_NAME_pushes_placeholder(self, i) ==
    Done(_push(self.stack, _placeholder), self.extended_args, NoReturn)

_LOAD_NAME_handler(self, i) ==
    Done(_push(self.stack, PyStr(i.argrepr)), self.extended_args, NoReturn)

_BUILD_TUPLE_handler(self, i) ==
    LET r == _pop_n_push_one(self.stack, i.arg)
    IN  [stack |-> r.stack, extended_args |-> self.extended_args, ret |-> NoReturn, exc |-> r.exc]

_BUILD_LIST_handler(self, i) == _BUILD_TUPLE_handler(self, i)

_BUILD_SET_handler(self, i) == _BUILD_TUPLE_handler(self, i)

_BUILD_MAP_handler(self, i) ==
    LET r == _pop_n_push_one(self.stack, i.arg * 2)
    IN  [stack |-> r.stack, extended_args |-> self.extended_args, ret |-> NoReturn, exc |-> r.exc]

(* A BUILD_CONST_KEY_MAP that forgets the tuple of keys. *)
BUILD_CONST_KEY_MAP_without_keys(self, i) ==
    LET r == _pop_n_push_one(self.stack, i.arg)
    IN  [stack |-> r.stack, extended_args |-> self.extended_args, ret |-> NoReturn, exc |-> r.exc]

_BUILD_CONST_KEY_MAP_handler(self, i) ==
    LET r == _pop_n_push_one(self.stack, i.arg + 1)
    IN  [stack |-> r.stack, extended_args |-> self.extended_args, ret |-> NoReturn, exc |-> r.exc]

(* A LOAD_ATTR with the interpreter's effect: the top is replaced by the    *)
(* attribute.                                                              *)
LOAD_ATTR_replaces_tos(self, i) ==
    Done(_replace_tos(self.stack, PyStr(i.argrepr)), self.extended_args, NoReturn)

_LOAD_ATTR_handler(self, i) == Done(self.stack, self.extended_args, NoReturn)

_LOAD_FAST_handler(self, i) ==
    Done(_push(self.stack, PyStr(i.argrepr)), self.extended_args, NoReturn)

_STORE_FAST_handler(self, i) == _STORE_NAME_handler(self, i)

_LOAD_METHOD_handler(self, i) ==
    Done(_pop(self.stack, 1).stack, self.extended_args, NoReturn)

_CALL_METHOD_handler(self, i) == Done(self.stack, self.extended_args, NoReturn)

(* An EXTENDED_ARG that inserts its argument at the front. *)
EXTENDED_ARG_prepends(self, i) ==
    Done(self.stack, <<i.arg>> \o self.extended_args, NoReturn)

_EXTENDED_ARG_handler(self, i) ==
    Done(self.stack, Append(self.extended_args, i.arg), NoReturn)

---------------------------------------------------------------------------
(* Dispatch *)

(* opname.startswith(prefix), for a prefix that ends in "_": on words, the  *)
(* prefix is its words followed by an empty word, and the name must go on   *)
(* with at least one more word after them.                                  *)
(* A prefix test that forgets the "_" that ends the prefix. *)
startswith_without_underscore(opname, prefix) ==
    /\ Len(opname) >= Len(prefix) - 1
    /\ \A k \in 1..(Len(prefix) - 1) : opname[k] = prefix[k]

startswith(opname, prefix) ==
    /\ Len(opname) >= Len(prefix)
    /\ \A k \in 1..(Len(prefix) - 1) : opname[k] = prefix[k]

BINARY_ == <<"BINARY", "">>

(* f"_{instr.opname}_handler" *)
HandlerName(opname) == <<"">> \o opname \o <<"handler">>

(* The attributes of ValueStack that such a name can find. *)
Handlers == {
    HandlerName(<<"POP", "TOP">>), HandlerName(<<"ROT", "TWO">>), HandlerName(<<"DUP", "TOP">>),
    HandlerName(<<"UNARY", "POSITIVE">>), HandlerName(<<"UNARY", "NEGATIVE">>),
    HandlerName(<<"UNARY", "NOT">>), HandlerName(<<"UNARY", "INVERT">>),
    HandlerName(<<"BINARY", "operation">>), HandlerName(<<"RETURN", "VALUE">>),
    HandlerName(<<"STORE", "NAME">>), HandlerName(<<"UNPACK", "SEQUENCE">>),
    HandlerName(<<"UNPACK", "EX">>), HandlerName(<<"STORE", "ATTR">>),
    HandlerName(<<"LOAD", "CONST">>), HandlerName(<<"LOAD", "NAME">>),
    HandlerName(<<"BUILD", "TUPLE">>), HandlerName(<<"BUILD", "LIST">>),
    HandlerName(<<"BUILD", "SET">>), HandlerName(<<"BUILD", "MAP">>),
    HandlerName(<<"BUILD", "CONST", "KEY", "MAP">>), HandlerName(<<"LOAD", "ATTR">>),
    HandlerName(<<"LOAD", "FAST">>), HandlerName(<<"STORE", "FAST">>),
    HandlerName(<<"LOAD", "METHOD">>), HandlerName(<<"CALL", "METHOD">>),
    HandlerName(<<"EXTENDED", "ARG">>) }

(* getattr(self, name)(instr) *)
getattr(self, name, i) ==
    IF name \notin Handlers
    THEN Raise(self.stack, self.extended_args, AttributeError(name))
    ELSE CASE name = <<"", "POP", "TOP", "handler">> -> _POP_TOP_handler(self, i)
           [] name = <<"", "ROT", "TWO", "handler">> -> _ROT_TWO_handler(self, i)
           [] name = <<"", "DUP", "TOP", "handler">> -> _DUP_TOP_handler(self, i)
           [] name = <<"", "UNARY", "POSITIVE", "handler">> -> _UNARY_POSITIVE_handler(self, i)
           [] name = <<"", "UNARY", "NEGATIVE", "handler">> -> _UNARY_NEGATIVE_handler(self, i)
           [] name = <<"", "UNARY", "NOT", "handler">> -> _UNARY_NOT_handler(self, i)
           [] name = <<"", "UNARY", "INVERT", "handler">> -> _UNARY_INVERT_handler(self, i)
           [] name = <<"", "BINARY", "operation", "handler">> -> _BINARY_operation_handler(self, i)
           [] name = <<"", "RETURN", "VALUE", "handler">> -> _RETURN_VALUE_handler(self, i)
           [] name = <<"", "STORE", "NAME", "handler">> -> _STORE_NAME_handler(self, i)
           [] name = <<"", "UNPACK", "SEQUENCE", "handler">> -> _UNPACK_SEQUENCE_handler(self, i)
           [] name = <<"", "UNPACK", "EX", "handler">> -> _UNPACK_EX_handler(self, i)
           [] name = <<"", "STORE", "ATTR", "handler">> -> _STORE_ATTR_handler(self, i)
           [] name = <<"", "LOAD", "CONST", "handler">> -> _LOAD_CONST_handler(self, i)
           [] name = <<"", "LOAD", "NAME", "handler">> -> _LOAD_NAME_handler(self, i)
           [] name = <<"", "BUILD", "TUPLE", "handler">> -> _BUILD_TUPLE_handler(self, i)
           [] name = <<"", "BUILD", "LIST", "handler">> -> _BUILD_LIST_handler(self, i)
           [] name = <<"", "BUILD", "SET", "handler">> -> _BUILD_SET_handler(self, i)
           [] name = <<"", "BUILD", "MAP", "handler">> -> _BUILD_MAP_handler(self, i)
           [] name = <<"", "BUILD", "CONST", "KEY", "MAP", "handler">> -> _BUILD_CONST_KEY_MAP_handler(self, i)
           [] name = <<"", "LOAD", "ATTR", "handler">> -> _LOAD_ATTR_handler(self, i)
           [] name = <<"", "LOAD", "FAST", "handler">> -> _LOAD_FAST_handler(self, i)
           [] name = <<"", "STORE", "FAST", "handler">> -> _STORE_FAST_handler(self, i)
           [] name = <<"", "LOAD", "METHOD", "handler">> -> _LOAD_METHOD_handler(self, i)
           [] name = <<"", "CALL", "METHOD", "handler">> -> _CALL_METHOD_handler(self, i)
           [] name = <<"", "EXTENDED", "ARG", "handler">> -> _EXTENDED_ARG_handler(self, i)

(* An emit_mutation that drops what the handler returns. *)
emit_mutation_drops_return(self, i) ==
    IF startswith(i.opname, BINARY_)
    THEN LET r == _BINARY_operation_handler(self, i)
         IN  [r EXCEPT !.ret = NoReturn]
    ELSE LET r == getattr(self, HandlerName(i.opname), i)
         IN  [r EXCEPT !.ret = NoReturn]

(* ValueStack.emit_mutation: the state left, the return value, the exception. *)
emit_mutation(self, i) ==
    IF startswith(i.opname, BINARY_)
    THEN LET r == _BINARY_operation_handler(self, i)
         IN  [r EXCEPT !.ret = NoReturn]
    ELSE getattr(self, HandlerName(i.opname), i)

---------------------------------------------------------------------------
(* The simulator and its caller *)

Self == [stack |-> stack, extended_args |-> extended_args]

(* Total number of labels held by the slots of a stack. *)
RECURSIVE Labels(_)
Labels(st) == IF st = <<>> THEN 0 ELSE Len(st[1]) + Labels(Tail(st))

(* The model keeps the simulator's state within its bounds: the slots, the   *)
(* labels they hold and the pending extended args together, and the pending *)
(* extended args alone.                                                     *)
Bounded(r) ==
    /\ Len(r.stack) + Labels(r.stack) + Len(r.extended_args) <= MaxSize
    /\ Len(r.extended_args) <= MaxExt

(* One call of emit_mutation on instruction i. *)
Call(i) ==
    LET r == emit_mutation(Self, i)
    IN  /\ Bounded(r)
        /\ stack' = r.stack
        /\ extended_args' = r.extended_args
        /\ instr' = i
        /\ returned' = r.ret
        /\ raised' = r.exc

(* ValueStack.__init__ *)
Init ==
    /\ stack = <<>>
    /\ extended_args = <<>>
    /\ instr = NoInstr
    /\ returned = NoReturn
    /\ raised = NoExc
    /\ script = ""
    /\ pc = 0
    /\ stack0 = <<>>

(* The instruction sequences of the documentation that the caller may feed. *)
Scripts == [
    store_attr |-> << Instr(<<"LOAD", "NAME">>, 0, "b"), Instr(<<"LOAD", "ATTR">>, 0, ""),
                      Instr(<<"STORE", "ATTR">>, 0, "") >>,
    binary_add |-> << Instr(<<"LOAD", "NAME">>, 0, "a"), Instr(<<"LOAD", "NAME">>, 0, "b"),
                      Instr(<<"BINARY", "ADD">>, 0, "") >>,
    unpack_ex  |-> << Instr(<<"EXTENDED", "ARG">>, 2, ""), Instr(<<"UNPACK", "EX">>, 1, "") >>,
    const_store |-> << Instr(<<"LOAD", "CONST">>, 0, ""), Instr(<<"STORE", "NAME">>, 0, "x") >>,
    attr_store |-> << Instr(<<"LOAD", "CONST">>, 0, ""), Instr(<<"LOAD", "NAME">>, 0, "a"),
                      Instr(<<"LOAD", "ATTR">>, 1, "x"), Instr(<<"STORE", "ATTR">>, 2, "y") >>,
    attr_read  |-> << Instr(<<"LOAD", "NAME">>, 0, "b"), Instr(<<"LOAD", "ATTR">>, 1, "x"),
                      Instr(<<"STORE", "NAME">>, 2, "a") >>,
    rot_rot    |-> << Instr(<<"ROT", "TWO">>, 0, ""), Instr(<<"ROT", "TWO">>, 0, "") >>,
    dup_pop    |-> << Instr(<<"DUP", "TOP">>, 0, ""), Instr(<<"POP", "TOP">>, 0, "") >>,
    method_call |-> << Instr(<<"LOAD", "NAME">>, 0, "a"), Instr(<<"LOAD", "METHOD">>, 1, "m"),
                       Instr(<<"CALL", "METHOD">>, 0, "") >> ]

(* The sequences that are stated for a fresh simulator only. *)
FromFresh == {"store_attr", "binary_add"}

Fresh == stack = <<>> /\ extended_args = <<>>

(* The caller feeds any one instruction. *)
Process ==
    /\ \E i \in Instructions : Call(i)
    /\ script' = ""
    /\ pc' = 0
    /\ stack0' = <<>>

(* The caller starts a documented sequence: its first instruction. *)
Begin ==
    \E s \in DOMAIN Scripts :
        /\ s \in FromFresh => Fresh
        /\ Call(Scripts[s][1])
        /\ script' = s
        /\ pc' = 1
        /\ stack0' = stack

(* The caller goes on with the sequence, unless the last call failed. *)
Continue ==
    /\ script # ""
    /\ pc < Len(Scripts[script])
    /\ raised = NoExc
    /\ Call(Scripts[script][pc + 1])
    /\ pc' = pc + 1
    /\ UNCHANGED <<script, stack0>>

Next == Process \/ Begin \/ Continue

Spec == Init /\ [][Next]_vars

---------------------------------------------------------------------------
(* Vocabulary of the properties *)

Top(st) == st[Len(st)]
Second(st) == st[Len(st) - 1]
Below(st, n) == SubSeq(st, 1, Len(st) - n)

(* The labels of the top n slots of a stack. *)
TopLabels(st, n) == UNION {set(st[k]) : k \in (Len(st) - n + 1)..Len(st)}

Succeeded == raised = NoExc
Op(words) == instr.opname = words

BinaryOps == { <<"BINARY", "ADD">>, <<"BINARY", "TRUE", "DIVIDE">> }
UnsupportedOps == { <<"NOP">>, <<"BINARY">>, <<"STORE", "SUBSCR">> }
StoreNameOps == { <<"STORE", "NAME">>, <<"STORE", "FAST">> }

(* The failure kinds of the specification, as this code names them: the     *)
(* stack-underflow error is ValueStackException, the unsupported-opcode     *)
(* error is the AttributeError of the handler lookup.                       *)
StackUnderflow == "ValueStackException"
UnsupportedInstruction == "AttributeError"

(* How many slots an instruction pops or peeks. *)
Needs(i) ==
    CASE i.opname \in { <<"POP", "TOP">>, <<"RETURN", "VALUE">>, <<"LOAD", "METHOD">>,
                        <<"DUP", "TOP">>, <<"STORE", "NAME">>, <<"STORE", "FAST">>,
                        <<"UNPACK", "SEQUENCE">>, <<"UNPACK", "EX">> } -> 1
      [] i.opname \in BinaryOps \cup { <<"ROT", "TWO">>, <<"STORE", "ATTR">> } -> 2
      [] i.opname \in { <<"BUILD", "TUPLE">>, <<"BUILD", "LIST">>, <<"BUILD", "SET">> } -> i.arg
      [] i.opname = <<"BUILD", "MAP">> -> 2 * i.arg
      [] i.opname = <<"BUILD", "CONST", "KEY", "MAP">> -> i.arg + 1
      [] OTHER -> 0

---------------------------------------------------------------------------
(* C1: from a fresh simulator, [LOAD_NAME b, LOAD_ATTR x, STORE_ATTR y]     *)
(* emits nothing at its first two steps and Mutation(b, {b}) at the         *)
(* STORE_ATTR step.  (As stated; the code refutes it.)                      *)
C1_StoreAttrEmitsOwner ==
    script = "store_attr" =>
        /\ pc \in {1, 2} => (Succeeded /\ returned = NoReturn)
        /\ pc = 3 => (Succeeded /\ returned = Mutation("b", {"b"}))

(* C1, amended: the first two steps emit nothing and leave the one slot     *)
(* [b]; the STORE_ATTR step finds no slot beneath the owner, so it fails,   *)
(* emits no mutation and leaves the stack as it was.                        *)
C1_StoreAttrNeedsValueBeneath ==
    script = "store_attr" =>
        /\ stack0 = <<>>
        /\ stack = << <<"b">> >>
        /\ extended_args = <<>>
        /\ returned = NoReturn
        /\ pc \in {1, 2} => Succeeded
        /\ pc = 3 => ~Succeeded

C1_Witness ==
    script = "store_attr" /\ pc = 3 /\ Op(<<"STORE", "ATTR">>)

(* C2: an instruction that needs more slots than the stack holds fails      *)
(* with the stack-underflow error.  (As stated; the code refutes it.)       *)
C2_UnderflowRaises ==
    [][Len(stack) < Needs(instr') => raised'.type = StackUnderflow]_vars

(* C3: an opcode without a handler and without the binary prefix fails      *)
(* with the unsupported-opcode error, which names the opcode; the failed    *)
(* call changes neither the stack nor the accumulator.                      *)
C3_UnsupportedRaises ==
    [][instr'.opname \in UnsupportedOps =>
          /\ raised'.type = UnsupportedInstruction
          /\ raised'.attr = <<"">> \o instr'.opname \o <<"handler">>
          /\ returned' = NoReturn
          /\ stack' = stack
          /\ extended_args' = extended_args]_vars

C3_Witness ==
    /\ Op(<<"BINARY">>)
    /\ raised.type = UnsupportedInstruction
    /\ Len(stack) >= 2
    /\ extended_args # <<>>

(* C4: a failing call fails with the stack-underflow or with the            *)
(* unsupported-opcode error, never with another kind.  (As stated; the      *)
(* code refutes it.)                                                        *)
C4_TwoFailureKinds ==
    ~Succeeded => raised.type \in {StackUnderflow, UnsupportedInstruction}

(* C5: with two slots or more, a BINARY_* instruction replaces the top two  *)
(* slots by one slot holding the union of their labels, changes nothing     *)
(* below and nothing in the accumulator, and returns no mutation; and       *)
(* [LOAD_NAME a, LOAD_NAME b, BINARY_ADD] on a fresh simulator leaves the   *)
(* one slot {a, b}.                                                         *)
C5_BinaryMerges ==
    [][/\ (instr'.opname \in BinaryOps /\ Len(stack) >= 2) =>
            /\ raised' = NoExc
            /\ returned' = NoReturn
            /\ Len(stack') = Len(stack) - 1
            /\ set(Top(stack')) = set(Top(stack)) \cup set(Second(stack))
            /\ Below(stack', 1) = Below(stack, 2)
            /\ extended_args' = extended_args
       /\ (script' = "binary_add" /\ pc' = 3) =>
            /\ raised' = NoExc
            /\ Len(stack') = 1
            /\ set(stack'[1]) = {"a", "b"}]_vars

C5_Witness ==
    /\ Op(<<"BINARY", "TRUE", "DIVIDE">>)
    /\ Succeeded
    /\ Len(stack) >= 2
    /\ set(Top(stack)) = {"a", "b"}

(* C6: with the needed slots present, BUILD_TUPLE/LIST/SET with argument k  *)
(* merge the top k slots, BUILD_MAP the top 2k and BUILD_CONST_KEY_MAP the  *)
(* top k+1 into one slot holding the union of their labels; the depth       *)
(* drops by the number merged less one, the slots below are unchanged.      *)
C6_BuildMerges ==
    [][(instr'.opname \in { <<"BUILD", "TUPLE">>, <<"BUILD", "LIST">>, <<"BUILD", "SET">>,
                            <<"BUILD", "MAP">>, <<"BUILD", "CONST", "KEY", "MAP">> }
            /\ Len(stack) >= Needs(instr')) =>
          /\ raised' = NoExc
          /\ Len(stack') = Len(stack) - (Needs(instr') - 1)
          /\ set(Top(stack')) = TopLabels(stack, Needs(instr'))
          /\ Below(stack', 1) = Below(stack, Needs(instr'))]_vars

C6_Witness ==
    /\ Op(<<"BUILD", "CONST", "KEY", "MAP">>)
    /\ instr.arg = 1
    /\ Succeeded
    /\ Len(stack) = 2
    /\ set(Top(stack)) = {"a", "b"}

(* C7: on a non-empty stack with top slot S, UNPACK_SEQUENCE n replaces S   *)
(* by n slots equal to S (none for n = 0); the slots below and the          *)
(* accumulator are unchanged and no mutation is returned.                   *)
C7_UnpackSpreads ==
    [][(instr'.opname = <<"UNPACK", "SEQUENCE">> /\ Len(stack) >= 1) =>
          /\ raised' = NoExc
          /\ returned' = NoReturn
          /\ Len(stack') = Len(stack) - 1 + instr'.arg
          /\ \A k \in Len(stack)..Len(stack') : stack'[k] = Top(stack)
          /\ Below(stack', instr'.arg) = Below(stack, 1)
          /\ extended_args' = extended_args]_vars

C7_Witness ==
    /\ Op(<<"UNPACK", "SEQUENCE">>)
    /\ instr.arg = 2
    /\ Succeeded
    /\ Len(stack) = 3
    /\ Top(stack) = <<"a">>
    /\ Second(stack) = <<"a">>

C9_AccumulatorDrained ==
    (instr # NoInstr /\ Succeeded /\ ~Op(<<"EXTENDED", "ARG">>)) => extended_args = <<>>

(* C10: on a non-empty stack with top slot S, STORE_NAME and STORE_FAST     *)
(* return the one mutation whose target is the name operand and whose       *)
(* sources are the labels of S, and pop S; the slots below and the          *)
(* accumulator are unchanged.                                               *)
C10_StoreNameEmits ==
    [][(instr'.opname \in StoreNameOps /\ Len(stack) >= 1) =>
          /\ raised' = NoExc
          /\ returned' = Mutation(instr'.argval, set(Top(stack)))
          /\ stack' = Below(stack, 1)
          /\ extended_args' = extended_args]_vars

C10_Witness ==
    /\ Op(<<"STORE", "FAST">>)
    /\ Succeeded
    /\ returned = Mutation("b", {"a"})
    /\ stack # <<>>
    /\ extended_args # <<>>

---------------------------------------------------------------------------
NoOpOps == { <<"LOAD", "ATTR">>, <<"CALL", "METHOD">>,
             <<"UNARY", "POSITIVE">>, <<"UNARY", "NEGATIVE">>, <<"UNARY", "NOT">>,
             <<"UNARY", "INVERT">> }
LoadNameOps == { <<"LOAD", "NAME">>, <<"LOAD", "FAST">> }
StoreOps == StoreNameOps \cup { <<"STORE", "ATTR">> }

(* C11: LOAD_CONST pushes a slot without labels, and in any state            *)
(* [LOAD_CONST, STORE_NAME x] returns Mutation(x, {}) and leaves the stack   *)
(* as it was before the sequence.                                            *)
C11_ConstNoProvenance ==
    [][/\ instr'.opname = <<"LOAD", "CONST">> =>
            /\ raised' = NoExc
            /\ returned' = NoReturn
            /\ stack' = Append(stack, <<>>)
            /\ extended_args' = extended_args
       /\ (script' = "const_store" /\ pc' = 2) =>
            /\ raised' = NoExc
            /\ returned' = Mutation("x", {})
            /\ stack' = stack0'
            /\ extended_args' = extended_args]_vars

C11_Witness ==
    /\ script = "const_store"
    /\ pc = 2
    /\ returned = Mutation("x", {})
    /\ Len(stack) >= 2
    /\ Top(stack) # <<>>

(* C12: with exactly one label o in the top slot and the slot S beneath it,  *)
(* STORE_ATTR returns Mutation(o, labels of S) and changes neither the stack *)
(* nor the accumulator; [LOAD_CONST, LOAD_NAME a, LOAD_ATTR x, STORE_ATTR y] *)
(* returns Mutation(a, {}).                                                  *)
C12_StoreAttrPeeks ==
    [][/\ (instr'.opname = <<"STORE", "ATTR">> /\ Len(stack) >= 2 /\ Len(Top(stack)) = 1) =>
            /\ raised' = NoExc
            /\ returned' = Mutation(Top(stack)[1], set(Second(stack)))
            /\ stack' = stack
            /\ extended_args' = extended_args
       /\ (script' = "attr_store" /\ pc' = 4) =>
            /\ raised' = NoExc
            /\ returned' = Mutation("a", {})
            /\ stack' = stack0' \o << <<>>, <<"a">> >>]_vars

C12_Witness ==
    /\ script = ""
    /\ Op(<<"STORE", "ATTR">>)
    /\ returned = Mutation("a", {"b"})
    /\ Len(stack) >= 3

(* C13: LOAD_ATTR, the four unary operators and CALL_METHOD succeed in any   *)
(* state, the empty stack included, return nothing and change neither the    *)
(* stack nor the accumulator.                                                *)
C13_NoOps ==
    [][instr'.opname \in NoOpOps =>
          /\ raised' = NoExc
          /\ returned' = NoReturn
          /\ stack' = stack
          /\ extended_args' = extended_args]_vars

C13_Witness ==
    /\ Op(<<"LOAD", "ATTR">>)
    /\ Succeeded
    /\ script = ""
    /\ Len(stack) >= 2
    /\ Top(stack) = <<"a">>
    /\ extended_args # <<>>

(* C14: in any state, [LOAD_NAME b, LOAD_ATTR x, STORE_NAME a] returns       *)
(* nothing at its first two steps and Mutation(a, {b}) at the STORE_NAME     *)
(* step, and leaves the stack as it was before the sequence.                 *)
C14_AttrReadKeepsOwner ==
    script = "attr_read" =>
        /\ pc \in {1, 2} =>
            (Succeeded /\ returned = NoReturn /\ stack = Append(stack0, <<"b">>))
        /\ pc = 3 =>
            (Succeeded /\ returned = Mutation("a", {"b"}) /\ stack = stack0)

C14_Witness ==
    /\ script = "attr_read"
    /\ pc = 3
    /\ returned = Mutation("a", {"b"})
    /\ stack # <<>>

(* C15: a successful call returns a mutation exactly when the instruction    *)
(* is STORE_NAME, STORE_FAST or STORE_ATTR; every other successful call, of  *)
(* any BINARY_* opcode too, returns nothing.                                 *)
C15_OnlyStoresEmit ==
    (instr # NoInstr /\ Succeeded) =>
        (returned # NoReturn <=> instr.opname \in StoreOps)

C15_Witness ==
    /\ Op(<<"STORE", "ATTR">>)
    /\ Succeeded
    /\ returned # NoReturn
    /\ script = ""
    /\ extended_args # <<>>

(* C16: every slot of the stack is a list of labels that were loaded by      *)
(* name: the placeholder is neither a slot nor a label of a slot.  Pushing   *)
(* the placeholder (LOAD_CONST, or DUP_TOP of an empty stack) gives an       *)
(* empty slot, pushing a label (LOAD_NAME, LOAD_FAST) a slot of that label.  *)
C16_SlotsHoldLabels ==
    [][/\ \A k \in 1..Len(stack') : set(stack'[k]) \subseteq Names
       /\ instr'.opname = <<"LOAD", "CONST">> => stack' = Append(stack, <<>>)
       /\ (instr'.opname = <<"DUP", "TOP">> /\ stack = <<>>) => stack' = << <<>> >>
       /\ instr'.opname \in LoadNameOps => stack' = Append(stack, <<instr'.argrepr>>)]_vars

C16_Witness ==
    /\ Op(<<"DUP", "TOP">>)
    /\ Succeeded
    /\ stack = << <<>> >>

(* C17: EXTENDED_ARG appends its argument to the end of the accumulator,     *)
(* leaves the stack unchanged and returns nothing, in every state.           *)
C17_ExtendedArgAppends ==
    [][instr'.opname = <<"EXTENDED", "ARG">> =>
          /\ raised' = NoExc
          /\ returned' = NoReturn
          /\ extended_args' = Append(extended_args, instr'.arg)
          /\ stack' = stack]_vars

C17_Witness ==
    /\ Op(<<"EXTENDED", "ARG">>)
    /\ instr.arg = 2
    /\ extended_args = <<1, 2>>
    /\ stack # <<>>

(* C18: with two slots or more, ROT_TWO exchanges the top two slots and      *)
(* changes no other slot and nothing in the accumulator; two ROT_TWO in a    *)
(* row restore the stack.                                                    *)
C18_RotTwoSwaps ==
    [][/\ (instr'.opname = <<"ROT", "TWO">> /\ Len(stack) >= 2) =>
            /\ raised' = NoExc
            /\ Len(stack') = Len(stack)
            /\ Top(stack') = Second(stack)
            /\ Second(stack') = Top(stack)
            /\ Below(stack', 2) = Below(stack, 2)
            /\ extended_args' = extended_args
       /\ (script' = "rot_rot" /\ pc' = 2) =>
            /\ raised' = NoExc
            /\ stack' = stack0']_vars

C18_Witness ==
    /\ script = "rot_rot"
    /\ pc = 2
    /\ Succeeded
    /\ Len(stack) >= 3
    /\ Top(stack) # Second(stack)

(* C19: on a non-empty stack DUP_TOP pushes one slot equal to the top and    *)
(* pops nothing; a POP_TOP after it restores the stack.                      *)
C19_DupTopCopies ==
    [][/\ (instr'.opname = <<"DUP", "TOP">> /\ Len(stack) >= 1) =>
            /\ raised' = NoExc
            /\ returned' = NoReturn
            /\ Len(stack') = Len(stack) + 1
            /\ Top(stack') = Second(stack')
            /\ Below(stack', 1) = stack
            /\ extended_args' = extended_args
       /\ (script' = "dup_pop" /\ pc' = 2 /\ stack0' # <<>>) =>
            /\ raised' = NoExc
            /\ stack' = stack0']_vars

C19_Witness ==
    /\ script = "dup_pop"
    /\ pc = 2
    /\ Len(stack) >= 2
    /\ Top(stack) = <<"a">>

(* C20: in any state, [LOAD_NAME a, LOAD_METHOD m, CALL_METHOD] leaves one   *)
(* slot more than before it, above the slots that were there.  (As stated;   *)
(* the code refutes it.)                                                     *)
C20_MethodCallLeavesResult ==
    (script = "method_call" /\ pc = 3) =>
        /\ Succeeded
        /\ Len(stack) = Len(stack0) + 1
        /\ Below(stack, 1) = stack0

====
